---- MODULE Spec2Model ----
(***************************************************************************)
(* The schema-driven, page-wise extraction pipeline of                     *)
(* universal_extractor_backend.py together with the Streamlit handler of   *)
(* universal_extractor_frontend.py that calls it and reads its result.     *)
(*                                                                         *)
(* Python values are tagged tuples (<<"None">>, <<"int", 3>>, ...); a      *)
(* Python dict is the sequence of its <<key, value>> pairs in insertion    *)
(* order.  The PDF reader and the language model are the environment: a    *)
(* document is a sequence of pages, a model call answers nondeterministic- *)
(* ally with an exception or a list of raw items.                          *)
(***************************************************************************)
EXTENDS Integers, Sequences, FiniteSets, TLC

\* Bounds of the explored inputs.
MaxPages == 2
MaxFields == 2
MaxItems == 2

VARIABLES
  fields,           \* st.session_state.fields / process_extraction(fields)
  doc,              \* reader.pages of the uploaded PDF
  layoutSupported,  \* whether pypdf's extract_text takes extraction_mode
  num_pages,        \* no_of_pages / num_pages
  start_page,       \* page_number_to_extract_from / start_page
  api_key,          \* whether the sidebar's API key is non-empty
  pc,               \* position of the handler and of process_extraction
  BatchWrapper,     \* the schema built by build_pydantic_model
  page_texts,       \* the segmented units
  i,                \* enumerate index of the loop of run_llm_extraction
  pending,          \* answer of the model call in flight
  extracted_data,   \* the accumulator of run_llm_extraction
  result,           \* the envelope process_extraction returned
  ui,               \* what the page shows after the run
  invocations,      \* history: enumerate index of every model call issued
  responses,        \* history: the answer of every model call
  origin            \* history: per entry of extracted_data, the index of its unit

vars == <<fields, doc, layoutSupported, num_pages, start_page, api_key, pc,
          BatchWrapper, page_texts, i, pending, extracted_data, result, ui,
          invocations, responses, origin>>

-----------------------------------------------------------------------------
(* Python values *)

None == <<"None">>
Ellipsis == <<"...">>
EmptyStr == <<"str", "">>
PyInt(n) == <<"int", n>>
ALL == <<"str", "ALL">>

Max(a, b) == IF a >= b THEN a ELSE b
Min(a, b) == IF a <= b THEN a ELSE b

\* x or ""
OrEmpty(x) == IF x = None \/ x = EmptyStr THEN EmptyStr ELSE x

\* d.get(k, default) on a dict given as a record
DictGet(d, k, default) == IF k \in DOMAIN d THEN d[k] ELSE default

\* Position of key k in an ordered dict, 0 when absent
KeyIndex(d, k) ==
  IF \E n \in 1..Len(d) : d[n][1] = k
  THEN CHOOSE n \in 1..Len(d) : d[n][1] = k
  ELSE 0

Keys(d) == {d[n][1] : n \in 1..Len(d)}

Lookup(d, k) == d[KeyIndex(d, k)][2]

\* d[k] = v on an ordered dict: an existing key keeps its place and takes v
DictSet(d, k, v) ==
  IF KeyIndex(d, k) = 0
  THEN Append(d, <<k, v>>)
  ELSE [d EXCEPT ![KeyIndex(d, k)] = <<k, v>>]

-----------------------------------------------------------------------------
(* 1. build_pydantic_model *)

type_map == [str |-> "str", int |-> "int", float |-> "float", bool |-> "bool"]

\* dtype = type_map.get(f.get("type", "str"), str)
ResolveType(f) == DictGet(type_map, DictGet(f, "type", "str"), "str")

\* Mutant: a missing "required" key counts as required
IsRequiredDefaultTrue(f) == DictGet(f, "required", TRUE)

\* required = f.get("required", False)
IsRequired(f) == DictGet(f, "required", FALSE)

\* default_value = ... if required else None
DefaultValue(f) == IF IsRequired(f) THEN Ellipsis ELSE None

\* Mutant: every member is Optional, required or not
FinalTypeAlwaysOptional(f) == <<"Optional", ResolveType(f)>>

\* final_type = dtype if required else Optional[dtype]
FinalType(f) ==
  IF IsRequired(f) THEN <<"type", ResolveType(f)>>
  ELSE <<"Optional", ResolveType(f)>>

\* (final_type, Field(default_value, ...))
Annotation(f) == [type |-> FinalType(f), default |-> DefaultValue(f)]

\* annotations[f["name"]] = ... for the first n descriptors, in order
RECURSIVE Annotations(_, _)
Annotations(fs, n) ==
  IF n = 0 THEN <<>>
  ELSE DictSet(Annotations(fs, n - 1), fs[n].name, Annotation(fs[n]))

\* DynamicModel = create_model(model_name, **annotations);
\* BatchWrapper wraps a list of it under "items"
build_pydantic_model(fs) == Annotations(fs, Len(fs))

\* BatchWrapper.schema()
Schema(model) == <<"schema", model>>

-----------------------------------------------------------------------------
(* 2. extract_text_from_pdf *)

\* page.extract_text(...) in the given mode
ExtractText(page, mode) ==
  CASE page.kind = "text" -> <<"text", mode, page.no>>
    [] page.kind = "empty" -> EmptyStr
    [] OTHER -> None

\* the body of the loop: layout mode, plain mode on TypeError, then `or ""`
PageText(page, layoutOk) ==
  IF layoutOk THEN OrEmpty(ExtractText(page, "layout"))
  ELSE OrEmpty(OrEmpty(ExtractText(page, "plain")))

\* start_idx = max(0, start_page - 1)
StartIdx(sp) == Max(0, sp - 1)

\* Mutant: the count is taken from the first page, not from start_idx
EndIdxFromFirstPage(total_pages, np, start_idx) ==
  IF np = ALL THEN total_pages ELSE Min(np[2], total_pages)

\* end_idx = total_pages if num_pages == "ALL" else min(start_idx + int(num_pages), total_pages)
EndIdx(total_pages, np, start_idx) ==
  IF np = ALL THEN total_pages ELSE Min(start_idx + np[2], total_pages)

\* [text of reader.pages[pg] for pg in range(start_idx, end_idx)]
CollectTexts(pages, layoutOk, start_idx, end_idx) ==
  IF end_idx <= start_idx THEN <<>>
  ELSE [j \in 1..(end_idx - start_idx) |-> PageText(pages[start_idx + j], layoutOk)]

NoTextMessage == "No text could be extracted from the PDF."

\* Mutant: an empty unit sequence is returned instead of raising
extract_text_from_pdf_NoRaise(pages, layoutOk, np, sp) ==
  LET start_idx == StartIdx(sp)
      end_idx == EndIdx(Len(pages), np, start_idx)
  IN <<"ok", CollectTexts(pages, layoutOk, start_idx, end_idx)>>

\* <<"ok", page_texts>> or <<"raise", message>>
extract_text_from_pdf(pages, layoutOk, np, sp) ==
  LET total_pages == Len(pages)
      start_idx == StartIdx(sp)
      end_idx == EndIdx(total_pages, np, start_idx)
      texts == CollectTexts(pages, layoutOk, start_idx, end_idx)
  IN IF texts = <<>> THEN <<"raise", NoTextMessage>> ELSE <<"ok", texts>>

-----------------------------------------------------------------------------
(* 3. run_llm_extraction *)

\* One raw item the model emits for unit idx: every member named, the
\* members in `nulls` null, the others a value identifying unit and item.
RawItem(model, idx, j, nulls) ==
  [n \in 1..Len(model) |->
     <<model[n][1], IF model[n][1] \in nulls THEN None ELSE <<"val", idx, j>>>>]

\* The raw item lists of length n: only the last item may carry nulls.
RawItems(model, idx, n) ==
  IF n = 0 THEN {<<>>}
  ELSE {[j \in 1..n |-> RawItem(model, idx, j, IF j = n THEN nulls ELSE {})] :
          nulls \in SUBSET Keys(model)}

ModelCallFailed == "model call failed"
ValidationError == "validation error"

\* What the model may answer for unit idx: an exception (timeout, quota,
\* malformed output) or a list of raw items.
Responses(model, idx) ==
  {<<"raise", ModelCallFailed>>} \cup
  {<<"ok", items>> : items \in UNION {RawItems(model, idx, n) : n \in 0..MaxItems}}

\* pydantic's validation of one member of a raw item against its annotation
MemberOk(ann, raw, name) ==
  IF name \in Keys(raw)
  THEN Lookup(raw, name) = None => ann.type[1] = "Optional"
  ELSE ann.default # Ellipsis

MemberValue(ann, raw, name) ==
  IF name \in Keys(raw) THEN Lookup(raw, name) ELSE ann.default

ItemOk(model, raw) ==
  \A n \in 1..Len(model) : MemberOk(model[n][2], raw, model[n][1])

\* item.dict(): the members in declaration order
ItemDict(model, raw) ==
  [n \in 1..Len(model) |-> <<model[n][1], MemberValue(model[n][2], raw, model[n][1])>>]

\* structured_llm.invoke(...): the parsed BatchWrapper, or the exception
StructuredInvoke(model, resp) ==
  IF resp[1] = "raise" THEN resp
  ELSE IF \A j \in 1..Len(resp[2]) : ItemOk(model, resp[2][j])
       THEN <<"ok", [j \in 1..Len(resp[2]) |-> ItemDict(model, resp[2][j])]>>
       ELSE <<"raise", ValidationError>>

\* {"page": i + 1, "raw_text": page_text, "error": str(e)}
ErrorRecord(idx, page_text, e) ==
  << <<"page", PyInt(idx + 1)>>, <<"raw_text", page_text>>, <<"error", <<"str", e>>>> >>

\* Mutant: the except clause swallows the error and records nothing
ContributionSwallowsError(idx, page_text, outcome) ==
  IF outcome[1] = "ok" THEN outcome[2] ELSE <<>>

\* What one iteration adds to extracted_data: extend(page_data) or
\* append(error record)
Contribution(idx, page_text, outcome) ==
  IF outcome[1] = "ok" THEN outcome[2]
  ELSE <<ErrorRecord(idx, page_text, outcome[2])>>

\* Mutant: new entries are put in front of the accumulator
ExtendAtFront(data, added) == added \o data

\* extracted_data.extend(page_data) / extracted_data.append(record)
Extend(data, added) == data \o added

-----------------------------------------------------------------------------
(* 4. process_extraction *)

\* json.dumps(value, indent=2): the JSON text of the value
JsonDumps(value) == <<"json", value>>

SuccessEnvelope(model, texts, results) ==
  [success |-> TRUE,
   schema |-> Schema(model),
   json_output |-> JsonDumps(<<"array", results>>),
   pages_processed |-> Len(texts),
   total_items |-> Len(results)]

FailureEnvelope(e) ==
  [success |-> FALSE,
   error |-> e,
   schema |-> None,
   json_output |-> JsonDumps(<<"object", << <<"error", <<"str", e>>>> >>>>),
   pages_processed |-> 0,
   total_items |-> 0]

-----------------------------------------------------------------------------
(* The handler of the "Submit & Run Extraction" button *)

\* The key the handler reads: pd.DataFrame(result["raw_output"])
ReadKey == "raw_output"

-----------------------------------------------------------------------------
(* Inputs *)

\* What extract_text gives for a page: text, "" or None
PageKinds == {"text", "empty", "none"}

DocsOf(kinds) ==
  UNION {{[p \in 1..P |-> [no |-> p, kind |-> k[p]]] : k \in [1..P -> kinds]} :
           P \in 0..MaxPages}

\* The sidebar's choices: 1, 2, ... or "ALL"
NumPagesChoices == {ALL} \cup {PyInt(n) : n \in 1..MaxPages}

\* The sidebar's number input has min_value = 1
FormStartPages == 1..(MaxPages + 1)

\* What any caller of extract_text_from_pdf may pass
AnyStartPages == 0..(MaxPages + 1)

\* Descriptors as the sidebar form appends them
Descriptor(name, type, required) ==
  [name |-> name, type |-> type, required |-> required,
   description |-> "", examples |-> <<>>]

FormFieldLists ==
  {<<>>,
   <<Descriptor("a", "str", TRUE)>>,
   <<Descriptor("a", "str", FALSE)>>,
   <<Descriptor("a", "str", TRUE), Descriptor("b", "int", FALSE)>>,
   <<Descriptor("a", "str", TRUE), Descriptor("a", "int", FALSE)>>,
   <<Descriptor("a", "int", FALSE), Descriptor("a", "str", TRUE)>>}

\* Descriptors as any caller of build_pydantic_model may pass them: the
\* type and required keys may be missing, the type may be unknown
FieldNames == {"a", "b"}
FieldTypes == {"str", "int", "float", "bool", "date"}

AnyDescriptors ==
  {[name |-> nm] : nm \in FieldNames}
  \cup {[name |-> nm, type |-> t] : nm \in FieldNames, t \in FieldTypes}
  \cup {[name |-> nm, required |-> r] : nm \in FieldNames, r \in BOOLEAN}
  \cup {[name |-> nm, type |-> t, required |-> r] :
          nm \in FieldNames, t \in FieldTypes, r \in BOOLEAN}

AnyFieldLists == UNION {[1..n -> AnyDescriptors] : n \in 0..MaxFields}

-----------------------------------------------------------------------------
(* State machine *)

InitRun ==
  /\ pc = "idle"
  /\ BatchWrapper = None
  /\ page_texts = <<>>
  /\ i = 0
  /\ pending = None
  /\ extracted_data = <<>>
  /\ result = None
  /\ ui = "form"
  /\ invocations = <<>>
  /\ responses = <<>>
  /\ origin = <<>>

Init ==
  /\ fields \in FormFieldLists
  /\ doc \in DocsOf({"text", "none"})
  /\ layoutSupported \in BOOLEAN
  /\ num_pages \in NumPagesChoices
  /\ start_page \in FormStartPages
  /\ api_key \in BOOLEAN
  /\ InitRun

\* if run_extraction: if not api_key: st.error(...) else: process_extraction(...)
Submit ==
  /\ pc = "idle"
  /\ IF api_key
     THEN pc' = "build" /\ ui' = "spinner"
     ELSE pc' = "done" /\ ui' = "need_key"
  /\ UNCHANGED <<fields, doc, layoutSupported, num_pages, start_page, api_key,
                 BatchWrapper, page_texts, i, pending, extracted_data, result,
                 invocations, responses, origin>>

\* Step 1: DynamicModel, BatchWrapper = build_pydantic_model(fields)
BuildSchema ==
  /\ pc = "build"
  /\ BatchWrapper' = build_pydantic_model(fields)
  /\ pc' = "segment"
  /\ UNCHANGED <<fields, doc, layoutSupported, num_pages, start_page, api_key,
                 page_texts, i, pending, extracted_data, result, ui,
                 invocations, responses, origin>>

\* Step 2: page_texts = extract_text_from_pdf(...); a raise goes to the
\* except clause of process_extraction, which returns the failure envelope
Segment ==
  /\ pc = "segment"
  /\ LET r == extract_text_from_pdf(doc, layoutSupported, num_pages, start_page)
     IN IF r[1] = "ok"
        THEN /\ page_texts' = r[2]
             /\ pc' = "loop"
             /\ UNCHANGED result
        ELSE /\ result' = FailureEnvelope(r[2])
             /\ pc' = "returned"
             /\ UNCHANGED page_texts
  /\ i' = 0
  /\ extracted_data' = <<>>
  /\ UNCHANGED <<fields, doc, layoutSupported, num_pages, start_page, api_key,
                 BatchWrapper, pending, ui, invocations, responses, origin>>

\* Step 3, one iteration, first half: the blocking call structured_llm.invoke
LLMInvoke ==
  /\ pc = "loop"
  /\ i < Len(page_texts)
  /\ pending = None
  /\ \E resp \in Responses(BatchWrapper, i) :
       /\ pending' = StructuredInvoke(BatchWrapper, resp)
       /\ responses' = Append(responses, resp)
  /\ invocations' = Append(invocations, i)
  /\ UNCHANGED <<fields, doc, layoutSupported, num_pages, start_page, api_key,
                 pc, BatchWrapper, page_texts, i, extracted_data, result, ui,
                 origin>>

\* Step 3, one iteration, second half: extend with the items, or the except
\* clause's append of the error record; then the next unit
Fold ==
  /\ pc = "loop"
  /\ pending # None
  /\ LET added == Contribution(i, page_texts[i + 1], pending)
     IN /\ extracted_data' = Extend(extracted_data, added)
        /\ origin' = Extend(origin, [n \in 1..Len(added) |-> i])
  /\ pending' = None
  /\ i' = i + 1
  /\ UNCHANGED <<fields, doc, layoutSupported, num_pages, start_page, api_key,
                 pc, BatchWrapper, page_texts, result, ui, invocations,
                 responses>>

\* Step 4: the loop is over; json.dumps and the success envelope
Return ==
  /\ pc = "loop"
  /\ i = Len(page_texts)
  /\ pending = None
  /\ result' = SuccessEnvelope(BatchWrapper, page_texts, extracted_data)
  /\ pc' = "returned"
  /\ UNCHANGED <<fields, doc, layoutSupported, num_pages, start_page, api_key,
                 BatchWrapper, page_texts, i, pending, extracted_data, ui,
                 invocations, responses, origin>>

\* df = pd.DataFrame(result["raw_output"]); table and Excel export follow
Render ==
  /\ pc = "returned"
  /\ ui' = IF ReadKey \in DOMAIN result THEN "table" ELSE "KeyError"
  /\ pc' = "done"
  /\ UNCHANGED <<fields, doc, layoutSupported, num_pages, start_page, api_key,
                 BatchWrapper, page_texts, i, pending, extracted_data, result,
                 invocations, responses, origin>>

Next ==
  \/ Submit
  \/ BuildSchema
  \/ Segment
  \/ LLMInvoke
  \/ Fold
  \/ Return
  \/ Render

Spec == Init /\ [][Next]_vars

\* build_pydantic_model alone, on every descriptor list a caller may pass
InitSchema ==
  /\ fields \in AnyFieldLists
  /\ doc = <<>>
  /\ layoutSupported = TRUE
  /\ num_pages = ALL
  /\ start_page = 1
  /\ api_key = TRUE
  /\ InitRun

CallBuild ==
  /\ pc = "idle"
  /\ BatchWrapper' = build_pydantic_model(fields)
  /\ pc' = "built"
  /\ UNCHANGED <<fields, doc, layoutSupported, num_pages, start_page, api_key,
                 page_texts, i, pending, extracted_data, result, ui,
                 invocations, responses, origin>>

NextSchema == CallBuild

SpecSchema == InitSchema /\ [][NextSchema]_vars

\* extract_text_from_pdf alone (test_extraction_only), on every document,
\* start page and count
InitSegment ==
  /\ fields = <<>>
  /\ doc \in DocsOf(PageKinds)
  /\ layoutSupported \in BOOLEAN
  /\ num_pages \in NumPagesChoices
  /\ start_page \in AnyStartPages
  /\ api_key = TRUE
  /\ InitRun

CallSegment ==
  /\ pc = "idle"
  /\ LET r == extract_text_from_pdf(doc, layoutSupported, num_pages, start_page)
     IN IF r[1] = "ok"
        THEN page_texts' = r[2] /\ pc' = "segmented"
        ELSE page_texts' = <<>> /\ pc' = "raised"
  /\ UNCHANGED <<fields, doc, layoutSupported, num_pages, start_page, api_key,
                 BatchWrapper, i, pending, extracted_data, result, ui,
                 invocations, responses, origin>>

NextSegment == CallSegment

SpecSegment == InitSegment /\ [][NextSegment]_vars

-----------------------------------------------------------------------------
(* Vocabulary of the properties *)

\* process_extraction was called and has returned
Returned == pc \in {"returned", "done"} /\ ui # "need_key"

\* The entries of extracted_data that unit k contributed, in their order
RECURSIVE EntriesUpTo(_, _)
EntriesUpTo(k, n) ==
  IF n = 0 THEN <<>>
  ELSE IF origin[n] = k THEN Append(EntriesUpTo(k, n - 1), extracted_data[n])
       ELSE EntriesUpTo(k, n - 1)

EntriesOf(k) == EntriesUpTo(k, Len(extracted_data))

\* The members of the record type that were declared with required = true
RequiredMembers(model) ==
  {model[n][1] : n \in {m \in 1..Len(model) : model[m][2].default = Ellipsis}}

\* The answer to unit k's call holds an item whose required member is null
NullRequired(k) ==
  /\ responses[k + 1][1] = "ok"
  /\ \E j \in 1..Len(responses[k + 1][2]) :
       \E m \in RequiredMembers(BatchWrapper) :
         Lookup(responses[k + 1][2][j], m) = None

\* Unit k's model call raised: the model failed, or its output did not validate
CallRaised(k) == responses[k + 1][1] = "raise" \/ NullRequired(k)

\* rec is {page, raw_text, error} with the given raw text
IsErrorRecordOf(rec, text) ==
  /\ Len(rec) = 3
  /\ rec[1][1] = "page"
  /\ rec[2] = <<"raw_text", text>>
  /\ rec[3][1] = "error"

\* rec is an instance of the record type: its members, null only where nullable
WellTyped(model, rec) ==
  /\ Len(rec) = Len(model)
  /\ \A n \in 1..Len(model) :
       /\ rec[n][1] = model[n][1]
       /\ rec[n][2] = None => model[n][2].type[1] = "Optional"

UnitContribution(k) ==
  LET entries == EntriesOf(k)
  IN IF CallRaised(k)
     THEN /\ Len(entries) = 1
          /\ IsErrorRecordOf(entries[1], page_texts[k + 1])
     ELSE /\ Len(entries) = Len(responses[k + 1][2])
          /\ \A j \in 1..Len(entries) : WellTyped(BatchWrapper, entries[j])

UniqueNames(fs) ==
  \A m, n \in 1..Len(fs) : fs[m].name = fs[n].name => m = n

-----------------------------------------------------------------------------
(* Properties *)

\* C1: failure isolation.  Once the units are segmented (n >= 1), no model
\* call's error leaves the per-unit step: every folded unit whose call raised
\* has contributed exactly one error record {page, raw_text, error} carrying
\* its text unchanged, every other folded unit its well-typed records, and
\* when process_extraction returns every unit was invoked and success = true.
C1_FailureIsolation ==
  /\ pc = "loop" => \A k \in 0..(i - 1) : UnitContribution(k)
  /\ (Returned /\ page_texts # <<>>) =>
       /\ result.success = TRUE
       /\ invocations = [n \in 1..Len(page_texts) |-> n - 1]
       /\ \A k \in 0..(Len(page_texts) - 1) : UnitContribution(k)
       /\ result.json_output = <<"json", <<"array", extracted_data>>>>
       /\ result.total_items = Len(extracted_data)

C1_Witness ==
  /\ pc = "returned"
  /\ Len(page_texts) >= 2
  /\ responses[1][1] = "raise"
  /\ responses[2][1] = "ok"
  /\ Len(responses[2][2]) >= 1
  /\ ~CallRaised(1)

\* C2: units are processed one at a time, once each, in order.  The calls
\* issued are those of units 0, 1, 2, ... with no repetition; a call is issued
\* only when every earlier unit has been folded; the entries of the
\* accumulator are grouped by unit in unit order, and a succeeding unit's
\* records keep the order the model gave them.
C2_Sequential ==
  /\ \A n \in 1..Len(invocations) : invocations[n] = n - 1
  /\ Len(responses) = Len(invocations)
  /\ Len(invocations) = i + (IF pending # None THEN 1 ELSE 0)
  /\ Len(invocations) <= Len(page_texts)
  /\ Len(origin) = Len(extracted_data)
  /\ \A n \in 1..Len(origin) : origin[n] < i
  /\ \A m, n \in 1..Len(origin) : m < n => origin[m] <= origin[n]
  /\ \A k \in 0..(i - 1) : ~CallRaised(k) => EntriesOf(k) = responses[k + 1][2]
  /\ Returned /\ page_texts # <<>> => Len(invocations) = Len(page_texts)

C2_Witness ==
  /\ pc = "returned"
  /\ Len(page_texts) >= 2
  /\ Len(extracted_data) >= 2
  /\ origin[1] = 0
  /\ origin[Len(origin)] = 1
  /\ ~CallRaised(0)
  /\ Len(responses[1][2]) >= 1

\* C3: fatal abort.  When start_page lies beyond the last page or the
\* document has no page, no model call is ever issued, nothing is
\* accumulated, and process_extraction returns the failure envelope:
\* success false, schema null, zero counts, the message, and the JSON object
\* {"error": message}.
C3_FatalAbort ==
  (Len(doc) = 0 \/ start_page > Len(doc)) =>
    /\ invocations = <<>>
    /\ extracted_data = <<>>
    /\ pc # "loop"
    /\ Returned =>
         /\ result.success = FALSE
         /\ result.schema = None
         /\ result.pages_processed = 0
         /\ result.total_items = 0
         /\ result.error = NoTextMessage
         /\ result.json_output =
              <<"json", <<"object", << <<"error", <<"str", NoTextMessage>>>> >>>>>>

C3_Witness ==
  /\ pc = "returned"
  /\ Len(doc) >= 1
  /\ start_page > Len(doc)
  /\ result.success = FALSE

\* C4: segmentation bounds.  With P pages and the start page s clamped to at
\* least 1, if s <= P the units are exactly the texts of pages s .. P for
\* "ALL" and s .. min(s + c - 1, P) for a count c, in ascending page order.
C4_SegmentationBounds ==
  pc \in {"segmented", "raised"} =>
    LET P == Len(doc)
        s == IF start_page < 1 THEN 1 ELSE start_page
        e == IF num_pages = ALL THEN P ELSE Min(s + num_pages[2] - 1, P)
    IN s <= P =>
         /\ pc = "segmented"
         /\ page_texts = [j \in 1..(e - s + 1) |-> PageText(doc[s + j - 1], layoutSupported)]

C4_Witness ==
  /\ pc = "segmented"
  /\ Len(doc) = 2
  /\ start_page = 2
  /\ num_pages = PyInt(2)
  /\ Len(page_texts) = 1
  /\ doc[2].kind = "text"

\* C5: two descriptors with the same name make schema building fail, so no
\* page is segmented, no model call is made and the envelope is the failed
\* one.
C5_DuplicatesRejected ==
  ~UniqueNames(fields) =>
    /\ page_texts = <<>>
    /\ invocations = <<>>
    /\ Returned => (result.success = FALSE /\ result.schema = None)

\* C6: when the requested range is not empty but none of its pages yields
\* text, segmentation fails and no model call is made.
C6_NoTextAborts ==
  LET s == StartIdx(start_page)
      e == EndIdx(Len(doc), num_pages, s)
  IN (s < e /\ \A p \in (s + 1)..e : doc[p].kind # "text") =>
       /\ invocations = <<>>
       /\ Returned => result.success = FALSE

\* C7: for descriptors with unique names the record type has exactly the
\* descriptors' names as members, in order; a member is nullable with default
\* null iff its descriptor is not required (a missing key counts as not
\* required), a required one has no default; a known type is kept and any
\* other resolves to str.
C7_SchemaShape ==
  (pc = "built" /\ UniqueNames(fields)) =>
    /\ Len(BatchWrapper) = Len(fields)
    /\ \A n \in 1..Len(fields) :
         LET f == fields[n]
             ann == BatchWrapper[n][2]
             req == "required" \in DOMAIN f /\ f.required
         IN /\ BatchWrapper[n][1] = f.name
            /\ req => (ann.type[1] = "type" /\ ann.default = Ellipsis)
            /\ ~req => (ann.type[1] = "Optional" /\ ann.default = None)
            /\ ann.type[2] =
                 (IF "type" \in DOMAIN f /\ f.type \in {"str", "int", "float", "bool"}
                  THEN f.type ELSE "str")

C7_Witness ==
  /\ pc = "built"
  /\ Len(fields) = 2
  /\ UniqueNames(fields)
  /\ "required" \notin DOMAIN fields[1]
  /\ "type" \in DOMAIN fields[2]
  /\ fields[2].type = "date"
  /\ BatchWrapper[2][2].type[2] = "str"

C9_ErrorPageIsDocumentPage ==
  start_page >= 1 =>
    \A n \in 1..Len(extracted_data) :
      CallRaised(origin[n]) =>
        extracted_data[n][1] = <<"page", PyInt(start_page + origin[n])>>

\* C10: the key the handler reads is a key of the returned envelope, so a run
\* started from the page ends with the table and the export.
C10_KeysAgree ==
  /\ Returned => ReadKey \in DOMAIN result
  /\ (pc = "done" /\ ui # "need_key") => ui = "table"

====
